---------------------------- MODULE Spec2Model ----------------------------
(***************************************************************************)
(* liveplot: the plot controllers (plot.py), the render managers           *)
(* (plotmanager.py) and the worker handle with its command pipe            *)
(* (process.py), as state machines.                                        *)
(*                                                                         *)
(* A call is the tuple Python sends over the pipe, (name, *args):          *)
(* <<"add_point", x, y>>, <<"set_data", xs, ys>>, <<"close">>.  The same   *)
(* tuples name the calls made directly on a controller in-process.         *)
(* A method's outcome is a record [plot, err]: the controller as the       *)
(* method left it (up to the statement that raised) and the exception      *)
(* that left it, "none" when it returned.                                  *)
(***************************************************************************)
EXTENDS Integers, Sequences, FiniteSets, TLC

(* ------------------------------ bounds -------------------------------- *)

\* Longest trace (xdata/ydata) the in-process calls build.
MaxLen == 3
\* Most data commands a caller sends through one handle.
MaxSent == 3
\* Most close() calls a caller makes on one handle.
MaxClose == 2

\* Workers of earlier handles running when a handle is created: at most
MaxSiblings == 1

(* ------------------------------ values -------------------------------- *)

\* Points, in tenths: (1.0, 0.5) and (2.0, -0.3).
TracePoints == { <<10, 5>>, <<20, -3>> }

\* (xs, ys) payloads of set_data: equal lengths, lengths 2 and 0 (numpy
\* cannot broadcast them), lengths 2 and 1 (numpy broadcasts them).
TraceData ==
  { << <<10, 20>>, <<5, -3>> >>,
    << <<10, 20>>, <<>> >>,
    << <<10, 20>>, <<5>> >> }

NoErr == "none"

Ret(p) == [plot |-> p, err |-> NoErr]

Raise(p, e) == [plot |-> p, err |-> e]

(* ------------------------- trace controller --------------------------- *)

\* LivePlotTrace.__init__ with initialize_plot=False: the data lists exist,
\* fig/ax/manager/line do not.  xlim and ylim are "None" or "fixed" (a pair
\* the caller gave; its numbers play no part in the control flow).
TraceNew(xl, yl) ==
  [ kind        |-> "trace",
    initialized |-> FALSE,
    xlim        |-> xl,
    ylim        |-> yl,
    xdata       |-> <<>>,
    ydata       |-> <<>>,
    fig         |-> "none",
    manager     |-> "none",
    bg          |-> FALSE,
    line        |-> FALSE,
    lineData    |-> << <<>>, <<>> >>,
    axlim       |-> <<"none", "none">>,
    steps       |-> <<>> ]

\* Line2D.recache builds the path with np.broadcast_arrays(x, y): it raises
\* when the lengths differ and neither is 1.
Broadcastable(xs, ys) ==
  Len(xs) = Len(ys) \/ Len(xs) = 1 \/ Len(ys) = 1

BaseInitPlotReinit(p) ==
  Ret([p EXCEPT
    !.fig = "open",
    !.manager = IF p.xlim # "None" /\ p.ylim # "None" THEN "Blit" ELSE "Basic",
    !.bg = (p.xlim # "None" /\ p.ylim # "None"),
    !.initialized = TRUE])

BaseInitPlotEitherLimit(p) ==
  IF p.initialized
    THEN Raise(p, "RuntimeError")
    ELSE Ret([p EXCEPT
           !.fig = "open",
           !.manager = IF p.xlim # "None" \/ p.ylim # "None"
                         THEN "Blit" ELSE "Basic",
           !.bg = (p.xlim # "None" \/ p.ylim # "None"),
           !.initialized = TRUE])

\* LivePlotBase.init_plot: refuses a second call, creates the figure, picks
\* the manager, and the first draw (plt.pause) fires draw_event, on which a
\* BlitPlotManager captures its background.
BaseInitPlot(p) ==
  IF p.initialized
    THEN Raise(p, "RuntimeError")
    ELSE Ret([p EXCEPT
           !.fig = "open",
           !.manager = IF p.xlim # "None" /\ p.ylim # "None"
                         THEN "Blit" ELSE "Basic",
           !.bg = (p.xlim # "None" /\ p.ylim # "None"),
           !.initialized = TRUE])

\* The axes after LivePlotBase.init_plot: set_xlim/set_ylim put the caller's
\* value on an axis whose limit was given (and turn its autoscaling off); the
\* other axes are autoscaled.
InitLimits(p) ==
  << IF p.xlim # "None" THEN "caller" ELSE "auto",
     IF p.ylim # "None" THEN "caller" ELSE "auto" >>

\* LivePlotTrace.init_plot: base init, then ax.plot(xdata, ydata), which
\* raises on unequal lengths, then manager.add_artist(line).
TraceInitPlot(p) ==
  LET b == BaseInitPlot(p) IN
  IF b.err # NoErr THEN b
  ELSE
    LET c == [b.plot EXCEPT !.axlim = InitLimits(p)] IN
    IF Len(p.xdata) # Len(p.ydata) THEN Raise(c, "ValueError")
    ELSE Ret([c EXCEPT !.line = TRUE, !.lineData = <<p.xdata, p.ydata>>])

\* PlotManager.update by strategy: both draw the line, which raises when its
\* data cannot be broadcast.  BlitPlotManager.update captures the background
\* first when it has none.
ManagerUpdate(p) ==
  LET q == IF p.manager = "Blit" THEN [p EXCEPT !.bg = TRUE] ELSE p IN
  IF p.line /\ ~Broadcastable(p.lineData[1], p.lineData[2])
    THEN Raise(q, "ValueError")
    ELSE Ret([q EXCEPT !.steps = Append(@, "paint")])

\* BasicPlotManager.relim: ax.relim() and ax.autoscale_view(), which rescales
\* the axes whose autoscaling is on.
Relim(p) ==
  [p EXCEPT !.axlim = [i \in 1..2 |-> IF @[i] = "caller" THEN "caller"
                                      ELSE "auto"],
            !.steps = Append(@, "relim")]

\* ax.set_xlim(self.xlim) / ax.set_ylim(self.ylim) when the limit was given.
SetXlim(p) ==
  IF p.xlim # "None"
    THEN [p EXCEPT !.axlim[1] = "caller", !.steps = Append(@, "set_xlim")]
    ELSE p

SetYlim(p) ==
  IF p.ylim # "None"
    THEN [p EXCEPT !.axlim[2] = "caller", !.steps = Append(@, "set_ylim")]
    ELSE p

TraceUpdateLimitsFirst(p) ==
  LET q == [p EXCEPT !.steps = <<>>] IN
  IF p.manager = "none" THEN Raise(p, "AttributeError")
  ELSE IF p.manager = "Basic"
    THEN IF p.line /\ ~Broadcastable(p.lineData[1], p.lineData[2])
           THEN Raise(SetYlim(SetXlim(q)), "ValueError")
           ELSE ManagerUpdate(Relim(SetYlim(SetXlim(q))))
  ELSE ManagerUpdate(q)

\* LivePlotTrace.update: with the basic manager relim() (which reads the
\* line's path first and fails as the draw does), then set_xlim/set_ylim for
\* the limits given; then, with either manager, the manager paints.  steps
\* is what this call has done, in order.
TraceUpdate(p) ==
  LET q == [p EXCEPT !.steps = <<>>] IN
  IF p.manager = "none" THEN Raise(p, "AttributeError")
  ELSE IF p.manager = "Basic"
    THEN IF p.line /\ ~Broadcastable(p.lineData[1], p.lineData[2])
           THEN Raise(q, "ValueError")
           ELSE ManagerUpdate(SetYlim(SetXlim(Relim(q))))
  ELSE ManagerUpdate(q)

TraceAddPointBadAppend(p, x, y) ==
  LET q == [p EXCEPT !.xdata = <<x>> \o @, !.ydata = <<y>> \o @] IN
  IF ~q.line THEN Raise(q, "AttributeError")
  ELSE TraceUpdate([q EXCEPT !.lineData = <<q.xdata, q.ydata>>])

\* LivePlotTrace.add_point: append to both lists, rebind the line, update.
\* The appends come before the first use of self.line.
TraceAddPoint(p, x, y) ==
  LET q == [p EXCEPT !.xdata = Append(@, x), !.ydata = Append(@, y)] IN
  IF ~q.line THEN Raise(q, "AttributeError")
  ELSE TraceUpdate([q EXCEPT !.lineData = <<q.xdata, q.ydata>>])

\* LivePlotTrace.set_data: both lists are replaced with no length check,
\* then the line is rebound and update() runs.
TraceSetData(p, xs, ys) ==
  LET q == [p EXCEPT !.xdata = xs, !.ydata = ys] IN
  IF ~q.line THEN Raise(q, "AttributeError")
  ELSE TraceUpdate([q EXCEPT !.lineData = <<q.xdata, q.ydata>>])

\* LivePlotTrace.close: plt.close(self.fig); self.fig exists after init.
TraceClose(p) ==
  IF p.fig = "none" THEN Raise(p, "AttributeError")
  ELSE Ret([p EXCEPT !.fig = "closed"])

(* ------------------------- image controller --------------------------- *)

\* Grid size of the image controller (ylen rows, xlen columns).
YLen == 1
XLen == 2

\* A float: NaN, or a number.  Comparisons with NaN are false, as in IEEE.
NaN == [nan |-> TRUE, v |-> 0]

F(n) == [nan |-> FALSE, v |-> n]

FVals == { NaN, F(5), F(10) }

IsNan(a) == a.nan

Lt(a, b) == ~a.nan /\ ~b.nan /\ a.v < b.v

Cells == (1..YLen) \X (1..XLen)

\* np.nanmax / np.nanmin: over the cells that are not NaN; NaN when all are.
NanMax(g) ==
  LET nums == { g[c[1]][c[2]].v : c \in { d \in Cells : ~g[d[1]][d[2]].nan } } IN
  IF nums = {} THEN NaN
  ELSE F(CHOOSE m \in nums : \A n \in nums : n <= m)

NanMin(g) ==
  LET nums == { g[c[1]][c[2]].v : c \in { d \in Cells : ~g[d[1]][d[2]].nan } } IN
  IF nums = {} THEN NaN
  ELSE F(CHOOSE m \in nums : \A n \in nums : m <= n)

UniformGrid(a) == [y \in 1..YLen |-> [x \in 1..XLen |-> a]]

\* LivePlotImage.__init__ with initialize_plot=False: vmin = vmax = nan;
\* img_data and img do not exist yet; both axis limits are always set.
ImageNew ==
  [ kind        |-> "image",
    initialized |-> FALSE,
    xlim        |-> "fixed",
    ylim        |-> "fixed",
    hasData     |-> FALSE,
    img_data    |-> UniformGrid(NaN),
    vmin        |-> NaN,
    vmax        |-> NaN,
    fig         |-> "none",
    manager     |-> "none",
    bg          |-> FALSE,
    img         |-> FALSE,
    clim        |-> <<NaN, NaN>> ]

\* LivePlotImage.init_plot: base init, the manager replaced by a
\* BasicPlotManager, an all-NaN grid, the image, clim (-1, 1).
ImageInitPlot(p) ==
  LET b == BaseInitPlot(p) IN
  IF b.err # NoErr THEN b
  ELSE Ret([b.plot EXCEPT
         !.manager = "Basic",
         !.bg = FALSE,
         !.hasData = TRUE,
         !.img_data = UniformGrid(NaN),
         !.img = TRUE,
         !.clim = <<F(-1), F(1)>>])

RelimCbarShrinks(p, update_only) ==
  LET cmax == NanMax(p.img_data)
      cmin == NanMin(p.img_data)
      q == [p EXCEPT !.vmax = cmax, !.vmin = cmin]
  IN [q EXCEPT !.clim = << IF IsNan(q.vmax) THEN F(1) ELSE q.vmax,
                           IF IsNan(q.vmin) THEN F(-1) ELSE q.vmin >>]

RelimCbarKeeps(p, update_only) ==
  LET cmax == NanMax(p.img_data)
      cmin == NanMin(p.img_data)
      q == [p EXCEPT
              !.vmax = IF IsNan(p.vmax) \/ Lt(p.vmax, cmax) THEN cmax ELSE @,
              !.vmin = IF IsNan(p.vmin) \/ Lt(cmin, p.vmin) THEN cmin ELSE @]
  IN [q EXCEPT !.clim = << IF IsNan(q.vmax) THEN F(1) ELSE q.vmax,
                           IF IsNan(q.vmin) THEN F(-1) ELSE q.vmin >>]

\* LivePlotImage._relim_cbar: widen only (update_only) or recompute; then
\* set_clim(vmin = vmax-or-1.0, vmax = vmin-or--1.0), as the source has it.
RelimCbar(p, update_only) ==
  LET cmax == NanMax(p.img_data)
      cmin == NanMin(p.img_data)
      q == IF update_only
             THEN [p EXCEPT
                     !.vmax = IF IsNan(p.vmax) \/ Lt(p.vmax, cmax) THEN cmax ELSE @,
                     !.vmin = IF IsNan(p.vmin) \/ Lt(cmin, p.vmin) THEN cmin ELSE @]
             ELSE [p EXCEPT !.vmax = cmax, !.vmin = cmin]
  IN [q EXCEPT !.clim = << IF IsNan(q.vmax) THEN F(1) ELSE q.vmax,
                           IF IsNan(q.vmin) THEN F(-1) ELSE q.vmin >>]

\* LivePlotImage.update: widen the bounds (vmax/vmin are never None),
\* set_clim(vmin, vmax), then the manager paints.
ImageUpdate(p) ==
  IF ~p.hasData THEN Raise(p, "AttributeError")
  ELSE
    LET cmax == NanMax(p.img_data)
        cmin == NanMin(p.img_data)
        q == [p EXCEPT
                !.vmax = IF Lt(p.vmax, cmax) THEN cmax ELSE @,
                !.vmin = IF Lt(cmin, p.vmin) THEN cmin ELSE @]
    IN IF ~q.img THEN Raise(q, "AttributeError")
       ELSE Ret([q EXCEPT !.clim = <<q.vmin, q.vmax>>])

\* LivePlotImage.set_data: copy the grid in, rebind the image, _relim_cbar,
\* update.
ImageSetData(p, data, relim_cbar) ==
  LET q == [p EXCEPT !.img_data = data, !.hasData = TRUE] IN
  IF ~q.img THEN Raise(q, "AttributeError")
  ELSE ImageUpdate(RelimCbar(q, ~relim_cbar))

\* numpy's index rule for one axis of length n: -n..n-1, negatives wrap.
InRange(i, n) == -n <= i /\ i < n

Wrap(i, n) == IF i < 0 THEN i + n + 1 ELSE i + 1

\* LivePlotImage.add_point: write one cell, rebind the image, _relim_cbar.
ImageAddPoint(p, y, x, z, relim_cbar) ==
  IF ~p.hasData THEN Raise(p, "AttributeError")
  ELSE IF ~(InRange(y, YLen) /\ InRange(x, XLen)) THEN Raise(p, "IndexError")
  ELSE
    LET q == [p EXCEPT !.img_data[Wrap(y, YLen)][Wrap(x, XLen)] = z] IN
    IF ~q.img THEN Raise(q, "AttributeError")
    ELSE Ret(RelimCbar(q, ~relim_cbar))

(* ------------------------------ dispatch ------------------------------ *)

\* The callable attributes of each controller class.  LivePlotTrace defines
\* close; LivePlotImage and LivePlotBase do not.
Methods(p) ==
  IF p.kind = "trace"
    THEN {"init_plot", "update", "add_point", "set_data", "close",
          "process", "_call_method"}
    ELSE {"init_plot", "update", "add_point", "set_data", "_relim_cbar",
          "process", "_call_method"}

\* The data attributes set by __init__ (fig, ax, manager and the artist are
\* added by init_plot).
DataAttrs(p) ==
  {"title", "xlabel", "ylabel", "figsize", "xlim", "ylim", "grid", "initialized"}
    \cup (IF p.kind = "trace" THEN {"xdata", "ydata", "trace_kwargs"}
                              ELSE {"xlen", "ylen", "cmap", "vmin", "vmax", "origin"})
    \cup (IF p.initialized THEN {"fig", "ax", "manager"} ELSE {})

\* method(*args) on a controller: the bound method by class.
Invoke(p, m) ==
  IF p.kind = "trace" THEN
    CASE m[1] = "init_plot" -> TraceInitPlot(p)
      [] m[1] = "update"    -> TraceUpdate(p)
      [] m[1] = "add_point" -> TraceAddPoint(p, m[2], m[3])
      [] m[1] = "set_data"  -> TraceSetData(p, m[2], m[3])
      [] m[1] = "close"     -> TraceClose(p)
  ELSE
    CASE m[1] = "init_plot" -> ImageInitPlot(p)
      [] m[1] = "update"    -> ImageUpdate(p)
      [] m[1] = "add_point" -> ImageAddPoint(p, m[2], m[3], m[4], m[5])
      [] m[1] = "set_data"  -> ImageSetData(p, m[2], m[3])

\* LivePlotBase._call_method: an unknown or non-callable name is logged and
\* AttributeError is raised; otherwise the method is called.
CallMethod(p, m) ==
  IF m[1] \notin Methods(p) \cup DataAttrs(p) THEN Raise(p, "AttributeError")
  ELSE IF m[1] \notin Methods(p) THEN Raise(p, "AttributeError")
  ELSE Invoke(p, m)

(* ------------------------------- state -------------------------------- *)

VARIABLES
  plot,        \* the controller (in a worker: the worker's copy)
  lastCall,    \* the call last made on the controller in-process (CallTag)
  lastErr,     \* the exception the last call on the controller raised
  addLog,      \* add_point arguments, in call order, since construction
  pristine,    \* no set_data yet and no add_point before init_plot
  pipe,        \* commands sent and not yet received
  wpc,         \* worker: "none", "start", "recv", "exited", "crashed",
               \* "killed"
  hpc,         \* handle: "new", "open", "join", "check", "returned",
               \* "raised"; "exit1", "failed" when start() failed;
               \* "dropped" when its end of the pipe has been closed
  forced,      \* close() had to terminate() the worker
  closes,      \* close() calls begun
  closedOnce,  \* a close() call has returned
  siblings,    \* workers of earlier handles that are running
  callerPlot,  \* the controller object the handle keeps (self.plot)
  sent,        \* every command the handle put on the pipe, in order
  dispatched,  \* every command the worker handed to _call_method, in order
  mgr,         \* a BlitPlotManager: its figure, _artists and _bg
  basic,       \* a BasicPlotManager on the same figure: figure and _artists
  artist,      \* each artist's figure and animated flag
  surface,     \* the canvas: static content, rendered content, pending draw
  lastPaint    \* what the last BlitPlotManager.update() did

callVars == <<lastCall, addLog, pristine>>

workerVars ==
  <<pipe, wpc, hpc, forced, closes, closedOnce, siblings, callerPlot,
    sent, dispatched>>

blitVars == <<mgr, basic, artist, surface, lastPaint>>

vars == <<plot, lastErr, callVars, workerVars, blitVars>>

(* --------------------------- render manager --------------------------- *)

\* Most artists registered with one manager.
MaxArtists == 2
\* Most events that change the static content of the figure.
MaxGen == 2

Artists == {"a1", "a2", "a3"}

NoBg == [has |-> FALSE, gen |-> 0]

\* PlotManager.add_artist: an artist of another figure is refused, else it
\* is appended to _artists.
BaseAddArtist(m, arts, a) ==
  IF arts[a].fig # m.fig
    THEN [mgr |-> m, artist |-> arts, err |-> "RuntimeError"]
    ELSE [mgr |-> [m EXCEPT !.artists = Append(@, a)], artist |-> arts, err |-> NoErr]

\* BlitPlotManager.add_artist: set_animated(True), then the base method.
BlitAddArtist(m, arts, a) ==
  BaseAddArtist(m, [arts EXCEPT ![a].animated = TRUE], a)

\* BlitPlotManager.on_draw: copy the canvas as it is now into _bg, then draw
\* the animated artists.
OnDraw(m, s) == [m EXCEPT !.bg = [has |-> TRUE, gen |-> s.canvas]]

\* The toolkit redraws the figure (canvas.draw): the canvas shows the current
\* static content, and draw_event calls on_draw.
CanvasDraw(m, s) ==
  LET t == [s EXCEPT !.canvas = s.content, !.pending = FALSE] IN
  [mgr |-> OnDraw(m, t), surface |-> t]

\* BlitPlotManager._draw_animated: the artists drawn, in the order drawn.
DrawAnimated(m) == m.artists

BlitUpdateNoCapture(m, s) ==
  LET paint == [op |-> IF ~m.bg.has THEN "skip" ELSE "restore",
                bg |-> m.bg.gen, content |-> s.content,
                drawn |-> IF ~m.bg.has THEN <<>> ELSE DrawAnimated(m),
                redraw |-> s.pending]
      after == IF s.pending THEN CanvasDraw(m, s) ELSE [mgr |-> m, surface |-> s]
  IN [mgr |-> after.mgr, surface |-> after.surface, paint |-> paint]

\* BlitPlotManager.update: capture when _bg is None, else restore _bg, draw
\* the artists and blit; then flush_events runs the toolkit's event loop,
\* which carries out a pending redraw.
BlitUpdate(m, s) ==
  LET m1 == IF ~m.bg.has THEN OnDraw(m, s) ELSE m
      paint == [op |-> IF ~m.bg.has THEN "capture" ELSE "restore",
                bg |-> m1.bg.gen, content |-> s.content,
                drawn |-> DrawAnimated(m1), redraw |-> s.pending]
      after == IF s.pending THEN CanvasDraw(m1, s) ELSE [mgr |-> m1, surface |-> s]
  IN [mgr |-> after.mgr, surface |-> after.surface, paint |-> paint]

(* ------------------------------- pipe --------------------------------- *)

PipeSendFront(q, m) == <<m>> \o q

\* Connection.send: the message joins the end of the stream.
PipeSend(q, m) == Append(q, m)

\* The worker's process has ended (returned, raised, or was terminated): its
\* end of the pipe is closed and send() raises BrokenPipeError.
Dead == wpc \in {"exited", "crashed", "killed"}

\* The worker never closes its own end: pipe.closed stays False in process().
WorkerPipeClosed == FALSE

CloseMsg == <<"close">>

DataSent == Cardinality({ i \in DOMAIN sent : sent[i] # CloseMsg })

\* What a caller sends through a handle, by controller class.
Commands(p) ==
  IF p.kind = "trace"
    THEN { <<"add_point", pt[1], pt[2]>> : pt \in TracePoints }
           \cup { <<"set_data", d[1], d[2]>> : d \in TraceData }
           \cup { <<"foo">> }
    ELSE { <<"set_data", UniformGrid(F(5)), FALSE>>,
           <<"add_point", 0, 0, F(10), FALSE>>,
           <<"foo">> }

(* ------------------------------ initial ------------------------------- *)

InitCalls ==
  /\ lastCall = <<"new">>
  /\ addLog = <<>>
  /\ pristine = TRUE

InitWorker ==
  /\ pipe = <<>>
  /\ wpc = "start"
  /\ hpc = "open"
  /\ forced = FALSE
  /\ closes = 0
  /\ closedOnce = FALSE
  /\ siblings = 0
  /\ callerPlot = plot
  /\ sent = <<>>
  /\ dispatched = <<>>

InitBlit ==
  /\ mgr = [fig |-> "fig1", artists |-> <<>>, bg |-> NoBg]
  /\ basic = [fig |-> "fig1", artists |-> <<>>]
  /\ artist = [a \in Artists |->
                 [fig |-> IF a = "a2" THEN "fig2" ELSE "fig1", animated |-> FALSE]]
  /\ surface = [content |-> 0, canvas |-> 0, pending |-> FALSE]
  /\ lastPaint = [op |-> "none", bg |-> 0, content |-> 0,
                  drawn |-> <<>>, redraw |-> FALSE]

Controllers ==
  { TraceNew("fixed", "fixed"), TraceNew("None", "None"),
    TraceNew("fixed", "None"), TraceNew("None", "fixed"), ImageNew }

(* ------------------------- worker-isolated mode ------------------------ *)

\* The controllers a caller hands to LivePlotProcess: built with
\* initialize_plot=False as documented, or (the default) already initialized.
WorkerControllers ==
  { TraceNew("fixed", "fixed"), TraceNew("None", "None"), ImageNew,
    TraceInitPlot(TraceNew("fixed", "fixed")).plot }

\* What Process.start() does in LivePlotProcess.__init__: it starts the
\* worker, or raises.  RuntimeError is what the spawn start method raises
\* when a process is started outside the entry-point guard; OSError is what
\* it raises when the operating system refuses the new process.
StartOutcomes == { "ok", "RuntimeError", "OSError" }

\* LivePlotProcess.__init__ is about to run for the controller, in a caller
\* that may already hold handles whose workers are running.
Init ==
  /\ plot \in WorkerControllers
  /\ lastErr = NoErr
  /\ InitCalls /\ InitBlit
  /\ pipe = <<>>
  /\ wpc = "none"
  /\ hpc = "new"
  /\ forced = FALSE
  /\ closes = 0
  /\ closedOnce = FALSE
  /\ siblings \in 0..MaxSiblings
  /\ callerPlot = plot
  /\ sent = <<>>
  /\ dispatched = <<>>

\* LivePlotProcess.__init__: Pipe(), Process(target=plot.process), start().
\* Only RuntimeError is caught: every active child is terminated and
\* sys.exit(1) is raised.  Any other exception leaves __init__ as it is.
Start(outcome) ==
  /\ hpc = "new"
  /\ CASE outcome = "ok" ->
            hpc' = "open" /\ wpc' = "start" /\ UNCHANGED siblings
       [] outcome = "RuntimeError" ->
            hpc' = "exit1" /\ siblings' = 0 /\ UNCHANGED wpc
       [] OTHER ->
            hpc' = "failed" /\ UNCHANGED <<wpc, siblings>>
  /\ UNCHANGED <<plot, lastErr, callVars, blitVars,
                 pipe, forced, closes, closedOnce, callerPlot, sent, dispatched>>

SendAppliesLocally(m) ==
  /\ hpc \in {"open", "returned", "raised"}
  /\ DataSent < MaxSent
  /\ ~Dead
  /\ pipe' = PipeSend(pipe, m)
  /\ sent' = Append(sent, m)
  /\ callerPlot' = CallMethod(callerPlot, m).plot
  /\ UNCHANGED <<plot, lastErr, callVars, blitVars,
                 wpc, hpc, forced, closes, closedOnce, siblings, dispatched>>

\* LivePlotProcess.__getattr__ (and the add_point/set_data wrappers): the
\* call is sent as (name, *args); nothing else happens on the caller's side.
Send(m) ==
  /\ hpc \in {"open", "returned", "raised"}
  /\ DataSent < MaxSent
  /\ ~Dead
  /\ pipe' = PipeSend(pipe, m)
  /\ sent' = Append(sent, m)
  /\ UNCHANGED <<plot, lastErr, callVars, blitVars,
                 wpc, hpc, forced, closes, closedOnce, siblings, callerPlot,
                 dispatched>>

\* LivePlotProcess.close, first statement: pipe.send(("close",)).  With the
\* worker already gone the send raises and close() ends there.
CloseBegin ==
  /\ hpc \in {"open", "returned", "raised"}
  /\ closes < MaxClose
  /\ closes' = closes + 1
  /\ IF Dead
       THEN /\ hpc' = "raised"
            /\ UNCHANGED <<pipe, sent>>
       ELSE /\ hpc' = "join"
            /\ pipe' = PipeSend(pipe, CloseMsg)
            /\ sent' = Append(sent, CloseMsg)
  /\ UNCHANGED <<plot, lastErr, callVars, blitVars,
                 wpc, forced, closedOnce, siblings, callerPlot, dispatched>>

\* _process.join(timeout=5) returns: the worker has ended, or the timeout
\* has elapsed (time is not measured, so this may be at any moment).
JoinReturns ==
  /\ hpc = "join"
  /\ hpc' = "check"
  /\ UNCHANGED <<plot, lastErr, callVars, blitVars,
                 pipe, wpc, forced, closes, closedOnce, siblings, callerPlot,
                 sent, dispatched>>

\* The rest of close(): is_alive() -> terminate(), then the final join(),
\* which returns once the process has ended.
CloseFinish ==
  /\ hpc = "check"
  /\ IF Dead
       THEN UNCHANGED <<wpc, forced>>
       ELSE wpc' = "killed" /\ forced' = TRUE
  /\ hpc' = "returned"
  /\ closedOnce' = TRUE
  /\ UNCHANGED <<plot, lastErr, callVars, blitVars,
                 pipe, closes, siblings, callerPlot, sent, dispatched>>

ProcessEntryKeepsInitialized(p) ==
  IF p.initialized THEN Ret(p) ELSE Invoke(p, <<"init_plot">>)

\* LivePlotBase.process up to the loop: refuse an initialized controller,
\* else init_plot().
ProcessEntry(p) ==
  IF p.initialized THEN Raise(p, "RuntimeError")
  ELSE Invoke(p, <<"init_plot">>)

\* The worker process runs plot.process up to its loop.
WorkerStart ==
  /\ wpc = "start"
  /\ LET r == ProcessEntry(plot)
     IN /\ plot' = r.plot
        /\ lastErr' = r.err
        /\ wpc' = IF r.err = NoErr THEN "recv" ELSE "crashed"
  /\ UNCHANGED <<callVars, blitVars,
                 pipe, hpc, forced, closes, closedOnce, siblings, callerPlot,
                 sent, dispatched>>

\* One turn of the loop in process(): pipe.closed is checked, recv() takes
\* the oldest command, _call_method runs it.  An exception is not caught:
\* it ends the process.  Otherwise the loop goes round again.
WorkerRecv ==
  /\ wpc = "recv"
  /\ IF WorkerPipeClosed
       THEN /\ wpc' = "exited"
            /\ UNCHANGED <<plot, lastErr, pipe, dispatched>>
       ELSE /\ pipe # <<>>
            /\ LET r == CallMethod(plot, Head(pipe))
               IN /\ plot' = r.plot
                  /\ lastErr' = r.err
                  /\ wpc' = IF r.err = NoErr THEN "recv" ELSE "crashed"
            /\ pipe' = Tail(pipe)
            /\ dispatched' = Append(dispatched, Head(pipe))
  /\ UNCHANGED <<callVars, blitVars,
                 hpc, forced, closes, closedOnce, siblings, callerPlot, sent>>

\* The caller closes its end of the pipe (handle.pipe.close(), or the handle
\* is discarded) without having called close().
ChannelClose ==
  /\ hpc = "open"
  /\ closes = 0
  /\ hpc' = "dropped"
  /\ UNCHANGED <<plot, lastErr, callVars, blitVars,
                 pipe, wpc, forced, closes, closedOnce, siblings, callerPlot,
                 sent, dispatched>>

\* The worker is in recv() with nothing left to read and the caller's end
\* closed.  pipe.closed, the test in the loop, is the worker's own end and
\* stays False.  Where the worker holds no copy of the caller's end (spawn,
\* forkserver) recv() raises EOFError, which nothing catches; where it has
\* inherited one (fork) recv() never returns, which is this step not taken.
WorkerRecvEOF ==
  /\ wpc = "recv"
  /\ pipe = <<>>
  /\ hpc = "dropped"
  /\ wpc' = "crashed"
  /\ lastErr' = "EOFError"
  /\ UNCHANGED <<plot, callVars, blitVars,
                 pipe, hpc, forced, closes, closedOnce, siblings, callerPlot,
                 sent, dispatched>>

Next ==
  \/ \E o \in StartOutcomes : Start(o)
  \/ ChannelClose
  \/ WorkerRecvEOF
  \/ \E m \in Commands(plot) : Send(m)
  \/ CloseBegin
  \/ JoinReturns
  \/ CloseFinish
  \/ WorkerStart
  \/ WorkerRecv

Spec == Init /\ [][Next]_vars

(* --------------------------- in-process mode -------------------------- *)

\* Grids given to the image controller's set_data.
ImageGrids == { UniformGrid(a) : a \in FVals }

\* (y, x) indices given to the image controller's add_point: every cell, the
\* last cell by negative indices, and one index past each end of each axis.
ImageIndices ==
  ((0..(YLen - 1)) \X (0..(XLen - 1)))
    \cup { <<-1, -1>>, <<YLen, 0>>, <<0, XLen>>,
           <<-(YLen + 1), 0>>, <<0, -(XLen + 1)>> }

\* The calls a caller makes on a controller it holds.
Calls(p) ==
  IF p.kind = "trace"
    THEN { <<"init_plot">>, <<"update">>, <<"close">> }
           \cup { <<"add_point", pt[1], pt[2]>> : pt \in TracePoints }
           \cup { <<"set_data", d[1], d[2]>> : d \in TraceData }
    ELSE { <<"init_plot">>, <<"update">> }
           \cup { <<"set_data", g, r>> : g \in ImageGrids, r \in BOOLEAN }
           \cup { <<"add_point", i[1], i[2], z, r>> :
                    i \in ImageIndices, z \in FVals, r \in BOOLEAN }

\* What is kept of a call once it is made: a trace call as it is; of an
\* image call its name and its relim_cbar flag.
IndexClass(y, x) ==
  IF 0 <= y /\ y < YLen /\ 0 <= x /\ x < XLen THEN "inside"
  ELSE IF -YLen <= y /\ y < YLen /\ -XLen <= x /\ x < XLen THEN "negative"
  ELSE "outside"

CallTag(p, m) ==
  IF p.kind = "trace" \/ Len(m) = 1 THEN m
  ELSE IF m[1] = "add_point" THEN <<m[1], m[5], IndexClass(m[2], m[3])>>
  ELSE <<m[1], m[Len(m)]>>

InitCallsSpec ==
  /\ plot \in Controllers
  /\ lastErr = NoErr
  /\ InitCalls /\ InitWorker /\ InitBlit

\* One call on the controller.  A trace is grown to MaxLen points at most.
Call(m) ==
  /\ m[1] = "add_point" /\ plot.kind = "trace"
       => Len(plot.xdata) < MaxLen /\ Len(plot.ydata) < MaxLen
  /\ LET r == Invoke(plot, m)
     IN /\ plot' = r.plot
        /\ lastErr' = r.err
  /\ lastCall' = CallTag(plot, m)
  /\ pristine' = (/\ pristine
                  /\ m[1] # "set_data"
                  /\ ~(m[1] = "add_point" /\ ~plot.initialized))
  /\ addLog' = IF ~pristine' THEN <<>>
               ELSE IF m[1] = "add_point" /\ plot.kind = "trace"
                 THEN Append(addLog, <<m[2], m[3]>>)
               ELSE addLog
  /\ UNCHANGED <<workerVars, blitVars>>

NextCalls == \E m \in Calls(plot) : Call(m)

SpecCalls == InitCallsSpec /\ [][NextCalls]_vars

(* ------------------------- blit manager alone ------------------------- *)

InitBlitSpec ==
  /\ plot = TraceNew("fixed", "fixed")
  /\ lastErr = NoErr
  /\ InitCalls /\ InitWorker /\ InitBlit

\* manager.add_artist(a) on the BlitPlotManager.
BlitAdd(a) ==
  /\ Len(mgr.artists) < MaxArtists
  /\ LET r == BlitAddArtist(mgr, artist, a)
     IN /\ mgr' = r.mgr
        /\ artist' = r.artist
        /\ lastErr' = r.err
  /\ UNCHANGED <<plot, callVars, workerVars, basic, surface, lastPaint>>

\* add_artist(a) on the BasicPlotManager, which inherits PlotManager's.
BasicAdd(a) ==
  /\ Len(basic.artists) < MaxArtists
  /\ LET r == BaseAddArtist(basic, artist, a)
     IN /\ basic' = r.mgr
        /\ artist' = r.artist
        /\ lastErr' = r.err
  /\ UNCHANGED <<plot, callVars, workerVars, mgr, surface, lastPaint>>

\* The window is resized or an axis limit is changed: the static content of
\* the figure changes and the toolkit has a redraw pending.
Invalidate ==
  /\ surface.content < MaxGen
  /\ surface' = [surface EXCEPT !.content = @ + 1, !.pending = TRUE]
  /\ UNCHANGED <<plot, lastErr, callVars, workerVars,
                 mgr, basic, artist, lastPaint>>

\* The toolkit's event loop runs outside update() (the caller pauses or
\* draws) and carries out the pending redraw.
DrawEvent ==
  /\ surface.pending
  /\ LET r == CanvasDraw(mgr, surface)
     IN mgr' = r.mgr /\ surface' = r.surface
  /\ UNCHANGED <<plot, lastErr, callVars, workerVars,
                 basic, artist, lastPaint>>

\* manager.update().
BlitPaint ==
  /\ LET r == BlitUpdate(mgr, surface)
     IN /\ mgr' = r.mgr
        /\ surface' = r.surface
        /\ lastPaint' = r.paint
  /\ UNCHANGED <<plot, lastErr, callVars, workerVars, basic, artist>>

NextBlit ==
  \/ \E a \in Artists : BlitAdd(a)
  \/ \E a \in Artists : BasicAdd(a)
  \/ Invalidate
  \/ DrawEvent
  \/ BlitPaint

SpecBlit == InitBlitSpec /\ [][NextBlit]_vars

(* ------------------------------- claims ------------------------------- *)

Last(q) == q[Len(q)]

CloseProcessed == \E i \in DOMAIN dispatched : dispatched[i] = CloseMsg

\* C1: once the worker has processed Close it has left its receive loop, and
\* a close() that returns after the worker processed Close found the worker
\* stopped without terminating it.
C1_GracefulClose ==
  /\ CloseProcessed => wpc # "recv"
  /\ (hpc = "returned" /\ CloseProcessed) => (Dead /\ ~forced)

\* C2: the first close() never ends in an exception, whatever the worker's
\* state when it is called, and when it has returned the worker is stopped.
C2_CloseReturnsStopped ==
  /\ closes = 1 => hpc # "raised"
  /\ hpc = "returned" => Dead

\* C3: the commands dispatched so far, followed by those still on the pipe,
\* are exactly the commands sent, in send order; and a trace worker that has
\* dispatched only add_point commands holds their x and y in that order.
C3_FifoExactlyOnce ==
  /\ sent = dispatched \o pipe
  /\ (plot.kind = "trace" /\ \A i \in DOMAIN dispatched : dispatched[i][1] = "add_point")
       => /\ plot.xdata = [i \in DOMAIN dispatched |-> dispatched[i][2]]
          /\ plot.ydata = [i \in DOMAIN dispatched |-> dispatched[i][3]]

\* C3 witness: AddPoint(1.0, 0.5), AddPoint(2.0, -0.3) sent and dispatched.
C3_Witness ==
  /\ dispatched = << <<"add_point", 10, 5>>, <<"add_point", 20, -3>> >>
  /\ plot.xdata = <<10, 20>>
  /\ plot.ydata = <<5, -3>>

\* C4: on an initialized trace controller whose data came from add_point
\* calls alone, xdata and ydata are the x and y arguments in call order.
C4_AddPointAppends ==
  (plot.kind = "trace" /\ plot.initialized /\ pristine)
    => /\ plot.xdata = [i \in DOMAIN addLog |-> addLog[i][1]]
       /\ plot.ydata = [i \in DOMAIN addLog |-> addLog[i][2]]

\* C4 witness: two add_point calls made on the initialized controller.
C4_Witness ==
  /\ plot.kind = "trace" /\ plot.initialized /\ pristine
  /\ addLog = << <<10, 5>>, <<20, -3>> >>
  /\ lastCall = <<"add_point", 20, -3>>

\* C5: on an initialized trace controller a set_data call with xs and ys of
\* different lengths raises, leaves
\* xdata and ydata as they were, and the two have equal length afterwards.
C5_SetDataMismatchRejected ==
  [][ (plot.kind = "trace" /\ plot.initialized /\ lastCall'[1] = "set_data"
         /\ Len(lastCall'[2]) # Len(lastCall'[3]))
        => /\ lastErr' # NoErr
           /\ plot'.xdata = plot.xdata
           /\ plot'.ydata = plot.ydata
           /\ Len(plot'.xdata) = Len(plot'.ydata) ]_vars

DefaultModeCall(c) == c[1] \in {"set_data", "add_point"} /\ c[2] = FALSE

RelimCall(c) == c[1] \in {"set_data", "add_point"} /\ c[2] = TRUE

\* C6: a set_data or add_point call made with relim_cbar=False never shrinks
\* the colour bounds: a vmin that was set stays set and does not increase, a
\* vmax that was set stays set and does not decrease.
C6_BoundsNeverShrink ==
  [][ (plot.kind = "image" /\ DefaultModeCall(lastCall'))
        => /\ ~IsNan(plot.vmin) => (~IsNan(plot'.vmin) /\ plot'.vmin.v <= plot.vmin.v)
           /\ ~IsNan(plot.vmax) => (~IsNan(plot'.vmax) /\ plot'.vmax.v >= plot.vmax.v) ]_vars

\* C6 witness: after a default-mode call the bounds are wider than the data
\* now held (the earlier, larger maximum was kept).
C6_Witness ==
  /\ plot.kind = "image" /\ DefaultModeCall(lastCall) /\ lastErr = NoErr
  /\ plot.vmin = F(5) /\ plot.vmax = F(10)
  /\ NanMax(plot.img_data) = F(5)

\* C7: after a set_data or add_point call made with relim_cbar=True that
\* returned, vmin and vmax are the minimum and maximum of the grid held.
C7_RelimExact ==
  (plot.kind = "image" /\ RelimCall(lastCall) /\ lastErr = NoErr)
    => /\ plot.vmin = NanMin(plot.img_data)
       /\ plot.vmax = NanMax(plot.img_data)

\* C7 witness: an add_point call with relim_cbar=True has returned and both
\* bounds are 5, the only number in the grid.
C7_Witness ==
  /\ plot.kind = "image" /\ RelimCall(lastCall) /\ lastErr = NoErr
  /\ plot.vmin = F(5) /\ plot.vmax = F(5)
  /\ lastCall[1] = "add_point"

\* C8: no update() of the blit manager restores a background captured before
\* the latest change of the static content.
C8_NoStaleRestore ==
  lastPaint.op = "restore" => lastPaint.bg = lastPaint.content

\* C9: after the worker has been handed a command with an unknown name it is
\* still in its receive loop (unless close() terminated it).
C9_UnknownDropped ==
  (dispatched # <<>> /\ Last(dispatched) = <<"foo">> /\ ~forced) => wpc = "recv"

\* C10: once a close() has returned, the handle stays closed: a further
\* close() returns without an exception and changes nothing.
C10_CloseIdempotent ==
  closedOnce => hpc = "returned"

\* C11: init_plot on an initialized controller raises and leaves the
\* controller exactly as it was.
C11_SecondInitRejected ==
  [][ (plot.initialized /\ lastCall' = <<"init_plot">>)
        => (lastErr' = "RuntimeError" /\ plot' = plot) ]_vars

\* C11 witness: a second init_plot was refused on a controller that had been
\* closed, and the controller is still initialized and closed.
C11_Witness ==
  /\ lastCall = <<"init_plot">> /\ lastErr = "RuntimeError"
  /\ plot.initialized /\ plot.fig = "closed"

\* C12: add_point or set_data on a trace controller that is not initialized
\* raises and leaves it uninitialized with xdata and ydata unchanged.
C12_DataOpBeforeInitRejected ==
  [][ (plot.kind = "trace" /\ ~plot.initialized
         /\ lastCall'[1] \in {"add_point", "set_data"})
        => /\ lastErr' # NoErr
           /\ ~plot'.initialized
           /\ plot'.xdata = plot.xdata
           /\ plot'.ydata = plot.ydata ]_vars

\* C13: the worker entry point initializes the controller once, before any
\* command is consumed; handed an initialized controller it fails without
\* re-initializing and without consuming a command.
C13_EntryInitializesOnce ==
  [][ /\ (wpc = "start" /\ plot.initialized)
          => (wpc' # "recv" /\ plot' = plot /\ dispatched' = dispatched
                /\ Len(pipe') >= Len(pipe))
      /\ (wpc # "recv" /\ wpc' = "recv")
          => (wpc = "start" /\ ~plot.initialized /\ plot'.initialized
                /\ dispatched' = <<>>)
      /\ (dispatched' # dispatched) => (wpc = "recv" /\ plot.initialized)
      /\ (wpc \notin {"none", "start"}) => wpc' # "start" ]_vars

\* C13 witness: the worker handed an initialized controller has failed at
\* entry with a command waiting in the pipe that it never consumed.
C13_Witness ==
  /\ wpc = "crashed" /\ lastErr = "RuntimeError"
  /\ plot = TraceInitPlot(TraceNew("fixed", "fixed")).plot
  /\ dispatched = <<>> /\ pipe # <<>>

\* C14: when starting the worker fails, no sibling worker is left running
\* once the failure leaves LivePlotProcess.__init__.
C14_StartFailureCleansUp ==
  hpc \in {"exit1", "failed"} => siblings = 0

\* C16: each recognized command reaches a handler that exists on the
\* controller that receives it; Close reaches close on trace and on image.
C16_HandlersExist ==
  (dispatched # <<>>
     /\ Last(dispatched)[1] \in {"add_point", "set_data", "close"})
    => lastErr # "AttributeError"

\* C15: once a trace controller is closed, no later operation changes its
\* data or takes it out of the closed state.
C15_ClosedIsTerminal ==
  [][ (plot.kind = "trace" /\ plot.fig = "closed")
        => /\ plot'.fig = "closed"
           /\ plot'.xdata = plot.xdata
           /\ plot'.ydata = plot.ydata ]_vars

\* C17: an initialized trace controller uses the blit manager exactly when
\* both xlim and ylim were given, the full-redraw manager otherwise, and no
\* later operation changes the manager.
C17_StrategyFixedAtInit ==
  [][ (plot'.kind = "trace" /\ plot'.initialized)
        => /\ plot'.manager =
                IF plot'.xlim = "fixed" /\ plot'.ylim = "fixed"
                  THEN "Blit" ELSE "Basic"
           /\ plot.initialized => plot'.manager = plot.manager ]_vars

\* C17 witness: a trace controller with only xlim given has been initialized
\* with the full-redraw manager and has since taken a point.
C17_Witness ==
  /\ plot.kind = "trace" /\ plot.initialized
  /\ plot.xlim = "fixed" /\ plot.ylim = "None"
  /\ plot.manager = "Basic"
  /\ lastCall[1] = "add_point" /\ lastErr = NoErr

ImageUnchanged ==
  /\ plot'.img_data = plot.img_data
  /\ plot'.vmin = plot.vmin
  /\ plot'.vmax = plot.vmax

\* C20: image add_point with an index outside 0 <= y < ylen, 0 <= x < xlen,
\* negative indices included, raises and changes no cell and no colour bound.
C20_IndexChecked ==
  [][ (plot.kind = "image" /\ lastCall'[1] = "add_point"
         /\ lastCall'[3] \in {"negative", "outside"})
        => (lastErr' # NoErr /\ ImageUnchanged) ]_vars

Registered(m) == { m.artists[i] : i \in DOMAIN m.artists }

\* C18: registering an artist of another figure changes nothing: the artist
\* is in no registry and its animated flag is as it was (never set), with
\* the full-redraw manager and with the blit manager.
C18_ForeignArtistUntouched ==
  \A a \in Artists :
    artist[a].fig # mgr.fig
      => /\ a \notin Registered(mgr) \cup Registered(basic)
         /\ ~artist[a].animated

\* C19: an artist is in the registry of at most one manager.
C19_OneManagerPerArtist ==
  \A a \in Artists : ~(a \in Registered(mgr) /\ a \in Registered(basic))

\* C21: a BlitPlotManager.update() with no background captured captures
\* one and draws the artists; once any update() has returned, a background
\* is held.
C21_PaintCapturesMissingSnapshot ==
  /\ lastPaint.op # "none" => mgr.bg.has
  /\ lastPaint.op \in {"none", "capture", "restore"}

\* C21 witness: the first update() found no background, captured one itself
\* (no redraw was pending) and drew the two registered artists.
C21_Witness ==
  /\ lastPaint.op = "capture" /\ ~lastPaint.redraw
  /\ lastPaint.drawn = <<"a1", "a3">>
  /\ mgr.bg.has

\* C22: a BlitPlotManager.update() with a background held restores that
\* background and draws exactly the registered artists in registration
\* order, leaves the background and the registry as they were and causes no
\* full redraw.
C22_PaintRestoresOnly ==
  [][ (lastPaint' # lastPaint /\ mgr.bg.has)
        => /\ lastPaint'.op = "restore"
           /\ lastPaint'.bg = mgr.bg.gen
           /\ lastPaint'.drawn = mgr.artists
           /\ mgr' = mgr
           /\ ~lastPaint'.redraw ]_vars

\* What an update() that returned must have done, by the claim: with the
\* full-redraw manager relim, then each given limit re-applied, then paint;
\* with the blit manager paint alone.
ExpectedSteps(p) ==
  IF p.manager = "Basic"
    THEN <<"relim">>
           \o (IF p.xlim = "fixed" THEN <<"set_xlim">> ELSE <<>>)
           \o (IF p.ylim = "fixed" THEN <<"set_ylim">> ELSE <<>>)
           \o <<"paint">>
    ELSE <<"paint">>

\* C23: on a trace controller every update() that returns has, with the
\* full-redraw manager, recomputed the limits, then re-applied each limit
\* given at construction, then painted, so that the painted axes carry the
\* caller's value wherever one was given; with the blit manager it has
\* painted only.
C23_UpdateOrder ==
  (plot.kind = "trace" /\ lastErr = NoErr
     /\ lastCall[1] \in {"update", "add_point", "set_data"})
    => /\ plot.steps = ExpectedSteps(plot)
       /\ plot.xlim = "fixed" => plot.axlim[1] = "caller"
       /\ plot.ylim = "fixed" => plot.axlim[2] = "caller"

\* C23 witness: update() returned on a full-redraw controller with xlim
\* given: relim, set_xlim, paint.
C23_Witness ==
  /\ plot.kind = "trace" /\ plot.manager = "Basic"
  /\ lastCall = <<"update">> /\ lastErr = NoErr
  /\ plot.steps = <<"relim", "set_xlim", "paint">>
  /\ plot.axlim = <<"caller", "auto">>
  /\ plot.xdata # <<>>

\* C27: after an image set_data or add_point that returned, the colour
\* limits set on the image are the controller's bounds, lower = vmin and
\* upper = vmax with lower <= upper, the same for both operations.
C27_ClimMatchesBounds ==
  (plot.kind = "image" /\ lastErr = NoErr
     /\ lastCall[1] \in {"set_data", "add_point"}
     /\ ~IsNan(plot.vmin) /\ ~IsNan(plot.vmax))
    => /\ plot.clim = <<plot.vmin, plot.vmax>>
       /\ plot.clim[1].v <= plot.clim[2].v

\* C24: when the caller has closed its end of the pipe without sending
\* close, the worker does not leave its loop through an unhandled exception.
C24_ChannelClosureHandled ==
  hpc = "dropped" => ~(wpc = "crashed" /\ lastErr = "EOFError")

\* C25: a data command whose handler raises in the worker is skipped: the
\* worker is still in its receive loop (unless close() terminated it since).
C25_FailedCommandSkipped ==
  (dispatched # <<>>
     /\ Last(dispatched)[1] \in {"add_point", "set_data"}
     /\ lastErr \in {"ValueError", "IndexError"}
     /\ ~forced)
    => wpc = "recv"

\* C26: no step of the handle changes a controller: a send or close() step
\* leaves the worker's controller as it is and only appends to the pipe, the
\* worker's controller changes in worker steps alone, and the controller
\* object the handle keeps never changes.
C26_WorkerIsOnlyMutator ==
  [][ /\ callerPlot' = callerPlot
      /\ (sent' # sent)
           => /\ plot' = plot
              /\ dispatched' = dispatched
              /\ pipe' = Append(pipe, Last(sent'))
      /\ (hpc' # hpc) => plot' = plot
      /\ (plot' # plot)
           => (wpc \in {"start", "recv"} /\ hpc' = hpc /\ sent' = sent) ]_vars

\* C26 witness: data was sent and dispatched and close() has returned; the
\* worker's controller holds the data and the handle's controller is still
\* uninitialized and empty.
C26_Witness ==
  /\ hpc = "returned"
  /\ plot.kind = "trace" /\ plot.xdata = <<10, 20>> /\ plot.ydata = <<5, -3>>
  /\ callerPlot = TraceNew("None", "None")

=============================================================================
